---------------------------- MODULE Spec2Model ----------------------------
(***************************************************************************)
(* A model of the two programs of the repository:                          *)
(*   src/simple-pow-sha256/pow_sha256.py   (mine)                          *)
(*   src/pow_rsa_demo/rsa_pow_sign.py      (pow_search, is_prime,          *)
(*       generate_large_prime, generate_rsa_keypair, rsa_sign, rsa_verify) *)
(*                                                                         *)
(* Python integers are unbounded; every bound below keeps the values far   *)
(* below 2^31, so no arithmetic of the model wraps.                        *)
(*                                                                         *)
(* SHA-256 is an external primitive.  It is modelled as an oracle: the     *)
(* first time a message is hashed its digest is chosen freely, the choice  *)
(* is recorded, and every later hash of the same message returns the       *)
(* recorded digest (the function is deterministic, nothing else is         *)
(* assumed of it).                                                         *)
(***************************************************************************)
EXTENDS Integers, Sequences, FiniteSets, TLC

(***************************************************************************)
(* Bounds of the model.                                                    *)
(***************************************************************************)
MaxNonce == 3
HexLen == 2
MaxPrefixLen == 2
MaxN == 130
MaxRounds == 3
MaxPrimeBits == 7
MaxKeyBits == 13
MaxDigest == 40
MaxSig == 36

VARIABLES
    pc,           \* the position of the running program
    err,          \* the exception that ended the program, "" when none
    \* ---- the miners
    nickname,     \* pow_search's parameter / pow_sha256.NICKNAME
    prefix,       \* pow_search's prefix / mine's target_prefix
    nonce,        \* the miner's local nonce
    msg,          \* the miner's local msg / content
    h,            \* the miner's local h / hash_hex
    hexdigest,    \* the SHA-256 oracle, hex form: message -> digest so far
    powret,       \* what the miner returned
    \* ---- is_prime(n, k)
    ip_n,         \* parameter n
    ip_k,         \* parameter k
    ip_i,         \* rounds of "for _ in range(k)" completed
    ip_r,         \* local r
    ip_d,         \* local d
    ip_res,       \* the value returned
    ip_caller,    \* who called: "top" or "glp"
    \* ---- generate_large_prime(bits)
    bits,         \* parameter bits
    candidate,    \* local candidate
    glp_res,      \* the value returned
    glp_caller,   \* who called: "top", "kg_p" or "kg_q"
    \* ---- generate_rsa_keypair(bits)
    kbits,        \* parameter bits
    p, q, n, phi, d,
    public_key,
    private_key,
    \* ---- rsa_sign / rsa_verify
    message,      \* parameter message
    sha256,       \* the SHA-256 oracle, integer form: message -> digest so far
    h_int,        \* local h_int
    signature,    \* the value rsa_sign returned
    v_signature,  \* rsa_verify's parameter signature
    h_from_sig,   \* rsa_verify's local h_from_sig
    ok            \* the value rsa_verify returned

minerVars == <<nickname, prefix, nonce, msg, h, hexdigest, powret>>
primeVars == <<ip_n, ip_k, ip_i, ip_r, ip_d, ip_res, ip_caller>>
glpVars == <<bits, candidate, glp_res, glp_caller>>
keyVars == <<kbits, p, q, n, phi, d, public_key, private_key>>
sigVars == <<message, sha256, h_int, signature, v_signature, h_from_sig, ok>>
vars == <<pc, err, minerVars, primeVars, glpVars, keyVars, sigVars>>

None == "none"

(***************************************************************************)
(* Strings are sequences of one-character strings.                         *)
(***************************************************************************)
DigitChars == <<"0", "1", "2", "3", "4", "5", "6", "7", "8", "9">>

\* str(n) for n >= 0, as the f-string f"{nickname}{nonce}" formats nonce
RECURSIVE Decimal(_)
Decimal(x) ==
    IF x < 10 THEN <<DigitChars[x + 1]>>
    ELSE Decimal(x \div 10) \o <<DigitChars[(x % 10) + 1]>>

\* f"{nickname}{nonce}"
Content(nick, x) == nick \o Decimal(x)

\* str.startswith
StartsWith(s, pre) ==
    /\ Len(pre) <= Len(s)
    /\ SubSeq(s, 1, Len(pre)) = pre

\* the hex alphabet of the model's digests, and the digests
HexChars == {"0", "f"}
HexDigests == [1..HexLen -> HexChars]

\* the prefixes asked for ("g" is no hex digit: it matches no digest)
Prefixes ==
    UNION {[1..l -> HexChars] : l \in 0..MaxPrefixLen} \cup {<<"g">>}

NICKNAME == <<"S", "a", "m">>
Nicknames == {NICKNAME, <<"N", "7">>}

\* hashlib.sha256(m.encode("utf-8")).hexdigest() may return dg
HexOracle(m, dg) ==
    /\ dg \in HexDigests
    /\ m \in DOMAIN hexdigest => dg = hexdigest[m]

Recorded(table, m, v) ==
    [x \in DOMAIN table \cup {m} |-> IF x = m THEN v ELSE table[x]]

EmptyTable == [x \in {} |-> None]

SkipNonce(x) == x + 2

\* nonce += 1
NextNonce(x) == x + 1

(***************************************************************************)
(* The values of the variables of a function that has not been called.     *)
(***************************************************************************)
IdleMiner ==
    /\ nickname = <<>> /\ prefix = <<>> /\ nonce = 0 /\ msg = <<>>
    /\ h = <<>> /\ hexdigest = EmptyTable /\ powret = <<>>

IdlePrime ==
    /\ ip_n = 0 /\ ip_k = 0 /\ ip_i = 0 /\ ip_r = 0 /\ ip_d = 0
    /\ ip_res = FALSE /\ ip_caller = "top"

IdleGlp ==
    /\ bits = 0 /\ candidate = 0 /\ glp_res = 0 /\ glp_caller = "top"

IdleKeys ==
    /\ kbits = 0 /\ p = 0 /\ q = 0 /\ n = 0 /\ phi = 0 /\ d = 0
    /\ public_key = <<0, 0>> /\ private_key = <<0, 0>>

IdleSig ==
    /\ message = <<>> /\ sha256 = EmptyTable /\ h_int = 0 /\ signature = 0
    /\ v_signature = 0 /\ h_from_sig = 0 /\ ok = FALSE

\* the frames of is_prime and generate_large_prime are popped
PopPrime ==
    /\ ip_n' = 0 /\ ip_k' = 0 /\ ip_i' = 0 /\ ip_r' = 0 /\ ip_d' = 0
    /\ ip_res' = FALSE /\ ip_caller' = "top"

PopGlp ==
    /\ bits' = 0 /\ candidate' = 0 /\ glp_res' = 0 /\ glp_caller' = "top"

(***************************************************************************)
(* The miners: pow_search(nickname, prefix) and mine(target_prefix).       *)
(***************************************************************************)
InitMiner ==
    /\ pc \in {"pow_search", "mine"}
    /\ err = ""
    /\ nickname \in (IF pc = "mine" THEN {NICKNAME} ELSE Nicknames)
    /\ prefix \in Prefixes
    /\ nonce = 0
    /\ msg = <<>>
    /\ h = <<>>
    /\ hexdigest = EmptyTable
    /\ powret = <<>>
    /\ IdlePrime /\ IdleGlp /\ IdleKeys /\ IdleSig

\* one iteration of pow_search's while True loop
PowSearchIter ==
    /\ pc = "pow_search"
    /\ \E dg \in HexDigests :
        /\ HexOracle(Content(nickname, nonce), dg)
        /\ msg' = Content(nickname, nonce)
        /\ h' = dg
        /\ hexdigest' = Recorded(hexdigest, msg', dg)
        /\ IF StartsWith(dg, prefix)
           THEN /\ powret' = <<msg', h', nonce>>
                /\ nonce' = nonce
                /\ pc' = "pow_search_ret"
           ELSE /\ nonce < MaxNonce
                /\ nonce' = NextNonce(nonce)
                /\ powret' = powret
                /\ pc' = pc
    /\ UNCHANGED <<err, nickname, prefix, primeVars, glpVars, keyVars, sigVars>>

\* one iteration of mine's while True loop (elapsed, the fourth component of
\* the result, is timing instrumentation and is left out)
MineIter ==
    /\ pc = "mine"
    /\ \E dg \in HexDigests :
        /\ HexOracle(Content(NICKNAME, nonce), dg)
        /\ msg' = Content(NICKNAME, nonce)
        /\ h' = dg
        /\ hexdigest' = Recorded(hexdigest, msg', dg)
        /\ IF StartsWith(dg, prefix)
           THEN /\ powret' = <<nonce, msg', h'>>
                /\ nonce' = nonce
                /\ pc' = "mine_ret"
           ELSE /\ nonce < MaxNonce
                /\ nonce' = NextNonce(nonce)
                /\ powret' = powret
                /\ pc' = pc
    /\ UNCHANGED <<err, nickname, prefix, primeVars, glpVars, keyVars, sigVars>>

NextMiner == PowSearchIter \/ MineIter

SpecMiner == InitMiner /\ [][NextMiner]_vars

-----------------------------------------------------------------------------
(***************************************************************************)
(* Python's integer built-ins, by their documented results.                *)
(***************************************************************************)
Abs(x) == IF x < 0 THEN -x ELSE x

\* math.gcd
RECURSIVE Gcd(_, _)
Gcd(a, b) == IF b = 0 THEN Abs(a) ELSE Gcd(b, a % Abs(b))

\* extended Euclid on a, b >= 0: <<g, x, y>> with a*x + b*y = g
RECURSIVE Egcd(_, _)
Egcd(a, b) ==
    IF b = 0 THEN <<a, 1, 0>>
    ELSE LET t == Egcd(b, a % b)
         IN  <<t[1], t[3], t[2] - (a \div b) * t[3]>>

\* the inverse of a modulo m >= 1, when gcd(a, m) = 1
ModInv(a, m) == Egcd(a % m, m)[2] % m

\* b^x mod m by repeated squaring, for 0 <= b < m, x >= 0, m >= 1
RECURSIVE ModExp(_, _, _)
ModExp(b, x, m) ==
    IF x = 0 THEN 1 % m
    ELSE LET half == ModExp(b, x \div 2, m)
             sq == (half * half) % m
         IN  IF x % 2 = 1 THEN (sq * b) % m ELSE sq

\* pow(b, x, m) raises ValueError: a zero modulus, or a negative exponent of
\* a base that has no inverse
PyPowRaises(b, x, m) ==
    \/ m = 0
    \/ x < 0 /\ Gcd(b % Abs(m), Abs(m)) # 1

\* pow(b, x, m) when it does not raise: the result has the sign of m
PyPowVal(b, x, m) ==
    LET am == Abs(m)
        base == IF x < 0 THEN ModInv(b, am) ELSE b % am
        r == ModExp(base, Abs(x), am)
    IN  IF m < 0 /\ r # 0 THEN r - am ELSE r

\* a | b on non-negative integers
RECURSIVE BitOr(_, _)
BitOr(a, b) ==
    IF a = 0 THEN b
    ELSE IF b = 0 THEN a
    ELSE 2 * BitOr(a \div 2, b \div 2)
         + (IF a % 2 = 1 \/ b % 2 = 1 THEN 1 ELSE 0)

\* int.bit_length on non-negative integers
RECURSIVE BitLength(_)
BitLength(x) == IF x = 0 THEN 0 ELSE 1 + BitLength(x \div 2)

\* the values random.randrange(lo, hi) can return; it raises when there is none
RandRange(lo, hi) == lo..(hi - 1)

\* the values random.getrandbits(b) can return
GetRandBits(b) == 0..(2^b - 1)

(***************************************************************************)
(* is_prime(n, k)                                                          *)
(***************************************************************************)
DefaultRounds == 10

small_primes == <<2, 3, 5, 7, 11, 13, 17, 19, 23>>

InSmallPrimes(x) == \E j \in DOMAIN small_primes : small_primes[j] = x

NoTrialDivision(x) == FALSE

\* for p in small_primes: if n % p == 0
DividesSmallPrime(x) == \E j \in DOMAIN small_primes : x % small_primes[j] = 0

\* r, d = 0, n - 1; while d % 2 == 0: r += 1; d //= 2      gives <<r, d>>
RECURSIVE Decompose(_, _)
Decompose(r, dd) ==
    IF dd % 2 = 0 THEN Decompose(r + 1, dd \div 2) ELSE <<r, dd>>

\* for __ in range(times): x = pow(x, 2, n); if x == n - 1: break
\* TRUE when the loop leaves by break, FALSE when it runs into its else
RECURSIVE SquaringBreaks(_, _, _)
SquaringBreaks(x, times, m) ==
    IF times <= 0 THEN FALSE
    ELSE LET y == PyPowVal(x, 2, m)
         IN  y = m - 1 \/ SquaringBreaks(y, times - 1, m)

RoundPassesOnOne(a, r, dd, m) ==
    LET x == PyPowVal(a, dd, m)
    IN  \/ x = 1
        \/ SquaringBreaks(x, r - 1, m)

\* one round with base a passes (continue) instead of returning False
RoundPasses(a, r, dd, m) ==
    LET x == PyPowVal(a, dd, m)
    IN  \/ x = 1
        \/ x = m - 1
        \/ SquaringBreaks(x, r - 1, m)

\* the numbers is_prime is called on directly: a range around the small
\* cases, and odd composites without a factor below 29
TestNumbers == (-2..MaxN) \cup {341, 841, 899, 961}

InitPrime ==
    /\ pc = "is_prime"
    /\ err = ""
    /\ ip_n \in TestNumbers
    /\ ip_k \in 0..MaxRounds
    /\ ip_i = 0 /\ ip_r = 0 /\ ip_d = 0
    /\ ip_res = FALSE
    /\ ip_caller = "top"
    /\ IdleMiner /\ IdleGlp /\ IdleKeys /\ IdleSig

\* where is_prime's return continues
IsPrimeReturnsTo == IF ip_caller = "glp" THEN "glp_test" ELSE "is_prime_ret"

\* return v: the locals of the frame are gone, the caller keeps the argument
\* it passed and the value returned
IsPrimeReturn(v) ==
    /\ ip_res' = v
    /\ pc' = IsPrimeReturnsTo
    /\ ip_i' = 0 /\ ip_r' = 0 /\ ip_d' = 0
    /\ UNCHANGED <<err, ip_n, ip_k, ip_caller>>

\* lines 31-44: the checks before the rounds, and the decomposition of n - 1
IsPrimeEntry ==
    /\ pc = "is_prime"
    /\ IF ip_n < 2
       THEN IsPrimeReturn(FALSE)
       ELSE IF InSmallPrimes(ip_n)
       THEN IsPrimeReturn(TRUE)
       ELSE IF DividesSmallPrime(ip_n)
       THEN IsPrimeReturn(FALSE)
       ELSE /\ ip_r' = Decompose(0, ip_n - 1)[1]
            /\ ip_d' = Decompose(0, ip_n - 1)[2]
            /\ ip_i' = 0
            /\ pc' = "is_prime_round"
            /\ UNCHANGED <<err, ip_n, ip_k, ip_res, ip_caller>>
    /\ UNCHANGED <<minerVars, glpVars, keyVars, sigVars>>

\* lines 47-57: one iteration of "for _ in range(k)"; its locals a and x are
\* dead when it ends
IsPrimeRound ==
    /\ pc = "is_prime_round"
    /\ ip_i < ip_k
    /\ IF RandRange(2, ip_n - 2) = {}
       THEN /\ err' = "ValueError: empty range for randrange()"
            /\ pc' = "raised"
            /\ UNCHANGED primeVars
       ELSE \E a \in RandRange(2, ip_n - 2) :
               IF RoundPasses(a, ip_r, ip_d, ip_n)
               THEN /\ ip_i' = ip_i + 1
                    /\ pc' = pc
                    /\ UNCHANGED <<err, ip_n, ip_k, ip_r, ip_d, ip_res, ip_caller>>
               ELSE IsPrimeReturn(FALSE)
    /\ UNCHANGED <<minerVars, glpVars, keyVars, sigVars>>

\* line 58: the rounds are exhausted, return True
IsPrimeAccept ==
    /\ pc = "is_prime_round"
    /\ ip_i >= ip_k
    /\ IsPrimeReturn(TRUE)
    /\ UNCHANGED <<minerVars, glpVars, keyVars, sigVars>>

(***************************************************************************)
(* generate_large_prime(bits)                                              *)
(***************************************************************************)
InitGlp ==
    /\ pc = "glp_loop"
    /\ err = ""
    /\ bits \in 0..MaxPrimeBits
    /\ candidate = 0 /\ glp_res = 0
    /\ glp_caller = "top"
    /\ IdleMiner /\ IdlePrime /\ IdleKeys /\ IdleSig

CandidateNoTopBit(rnd, b) == BitOr(rnd, 1)

\* random.getrandbits(bits) | 1 | (1 << (bits - 1)), for bits >= 1
Candidate(rnd, b) == BitOr(BitOr(rnd, 1), 2^(b - 1))

\* where generate_large_prime's return continues
GlpReturnsTo ==
    CASE glp_caller = "kg_p" -> "keygen_p"
      [] glp_caller = "kg_q" -> "keygen_q"
      [] OTHER -> "glp_ret"

\* line 65 and the call of line 66: draw a candidate, call is_prime on it;
\* 1 << (bits - 1) raises ValueError for bits = 0
GlpSample ==
    /\ pc = "glp_loop"
    /\ IF bits < 1
       THEN /\ err' = "ValueError: negative shift count"
            /\ pc' = "raised"
            /\ UNCHANGED <<candidate, primeVars>>
       ELSE \E rnd \in GetRandBits(bits) :
               /\ candidate' = Candidate(rnd, bits)
               /\ ip_n' = candidate'
               /\ ip_k' = DefaultRounds
               /\ ip_caller' = "glp"
               /\ ip_i' = 0 /\ ip_r' = 0 /\ ip_d' = 0
               /\ ip_res' = FALSE
               /\ pc' = "is_prime"
               /\ err' = err
    /\ UNCHANGED <<bits, glp_res, glp_caller>>
    /\ UNCHANGED <<minerVars, keyVars, sigVars>>

\* lines 66-67: return the candidate is_prime accepted, else sample again
GlpTest ==
    /\ pc = "glp_test"
    /\ IF ip_res
       THEN /\ glp_res' = candidate
            /\ candidate' = 0
            /\ pc' = GlpReturnsTo
       ELSE /\ glp_res' = glp_res
            /\ candidate' = candidate
            /\ pc' = "glp_loop"
    /\ UNCHANGED <<err, bits, glp_caller>>
    /\ UNCHANGED <<minerVars, primeVars, keyVars, sigVars>>

NextPrime == IsPrimeEntry \/ IsPrimeRound \/ IsPrimeAccept \/ GlpSample \/ GlpTest

SpecPrime == (InitPrime \/ InitGlp) /\ [][NextPrime]_vars

\* a sequential program that can take a step takes it
FairSpecPrime == SpecPrime /\ WF_vars(NextPrime)

(***************************************************************************)
(* generate_rsa_keypair(bits)                                              *)
(***************************************************************************)
e == 65537

InitKeygen ==
    /\ pc = "keygen_loop"
    /\ err = ""
    /\ kbits \in 0..MaxKeyBits
    /\ p = 0 /\ q = 0 /\ n = 0 /\ phi = 0 /\ d = 0
    /\ public_key = <<0, 0>> /\ private_key = <<0, 0>>
    /\ IdleMiner /\ IdlePrime /\ IdleGlp /\ IdleSig

AnyPrimes(x, y) == TRUE

\* the primes differ: "if p == q: continue" is not taken
PrimesDiffer(x, y) == x # y

ExponentNotInverted(ph) == PyPowVal(e, 1, ph)

\* d = pow(e, -1, phi)
PrivateExponent(ph) == PyPowVal(e, -1, ph)

\* line 75: the call p = generate_large_prime(bits // 2)
KeygenSampleP ==
    /\ pc = "keygen_loop"
    /\ bits' = kbits \div 2
    /\ glp_caller' = "kg_p"
    /\ candidate' = 0 /\ glp_res' = 0
    /\ pc' = "glp_loop"
    /\ UNCHANGED <<err, minerVars, primeVars, keyVars, sigVars>>

\* line 75 returns into p; line 76: the call q = generate_large_prime(bits // 2)
KeygenSampleQ ==
    /\ pc = "keygen_p"
    /\ p' = glp_res
    /\ bits' = kbits \div 2
    /\ glp_caller' = "kg_q"
    /\ candidate' = 0 /\ glp_res' = 0
    /\ PopPrime
    /\ pc' = "glp_loop"
    /\ UNCHANGED <<kbits, q, n, phi, d, public_key, private_key>>
    /\ UNCHANGED <<err, minerVars, sigVars>>

\* line 76 returns into q; lines 77-93: the rest of the iteration, and the
\* return when it breaks out of the loop
KeygenCheck ==
    /\ pc = "keygen_q"
    /\ q' = glp_res
    /\ IF ~PrimesDiffer(p, q')
       THEN /\ pc' = "keygen_loop"
            /\ UNCHANGED <<n, phi, d, public_key, private_key>>
       ELSE /\ n' = p * q'
            /\ phi' = (p - 1) * (q' - 1)
            /\ IF Gcd(e, phi') = 1
               THEN /\ d' = PrivateExponent(phi')
                    /\ public_key' = <<e, n'>>
                    /\ private_key' = <<d', n'>>
                    /\ pc' = "keygen_ret"
               ELSE /\ pc' = "keygen_loop"
                    /\ UNCHANGED <<d, public_key, private_key>>
    /\ PopPrime /\ PopGlp
    /\ UNCHANGED <<err, kbits, p, minerVars, sigVars>>

(***************************************************************************)
(* rsa_sign(message, private_key) and rsa_verify(message, signature,       *)
(* public_key)                                                             *)
(***************************************************************************)
Messages == {Content(NICKNAME, 0), Content(NICKNAME, 1)}

\* the digests of the model, as integers: the small ones, and one above every
\* modulus of the model, as a 256-bit digest is above a short modulus
Digests == (0..MaxDigest) \cup {2^20}

\* sha256_int(m) may return dg
IntOracle(m, dg) ==
    /\ dg \in Digests
    /\ m \in DOMAIN sha256 => dg = sha256[m]

\* keys that no key generation produced
ArbModuli == (-2..2) \cup {15}
ArbExps == {-1, 3}

InitKeys ==
    /\ pc = "keys_given"
    /\ err = ""
    /\ \E km \in ArbModuli, ke \in ArbExps, kd \in ArbExps :
          /\ public_key = <<ke, km>>
          /\ private_key = <<kd, km>>
    /\ kbits = 0 /\ p = 0 /\ q = 0 /\ n = 0 /\ phi = 0 /\ d = 0
    /\ IdleMiner /\ IdlePrime /\ IdleGlp /\ IdleSig

\* the signatures rsa_verify is called with: the small ones and, after
\* rsa_sign, what it returned and that value moved by the modulus
SigInputs ==
    (-1..MaxSig) \cup
    (IF pc = "signed"
     THEN {signature, signature + public_key[2], signature - public_key[2]}
     ELSE {})

SignSwapped(hh, key) == PyPowVal(hh, key[2], key[1])

\* pow(h_int, d, n) of line 108
SignValue(hh, key) == PyPowVal(hh, key[1], key[2])

VerifyReduced(hh, fromsig) ==
    IF public_key[2] > 0 THEN hh % public_key[2] = fromsig ELSE hh = fromsig

\* h_int == h_from_sig of line 118
VerifyResult(hh, fromsig) == hh = fromsig

\* lines 104-109
RsaSign ==
    /\ pc \in {"keygen_ret", "keys_given"}
    /\ \E m \in Messages, dg \in Digests :
          /\ IntOracle(m, dg)
          /\ message' = m
          /\ sha256' = Recorded(sha256, m, dg)
          /\ h_int' = dg
          /\ IF PyPowRaises(dg, private_key[1], private_key[2])
             THEN /\ err' = "ValueError: pow()"
                  /\ signature' = signature
                  /\ pc' = "raised"
             ELSE /\ err' = err
                  /\ signature' = SignValue(dg, private_key)
                  /\ pc' = "signed"
    /\ UNCHANGED <<v_signature, h_from_sig, ok>>
    /\ UNCHANGED <<minerVars, primeVars, glpVars, keyVars>>

\* lines 112-118; after rsa_sign it is called on the message that was signed
RsaVerify ==
    /\ pc \in {"signed", "keys_given"}
    /\ \E m \in (IF pc = "signed" THEN {message} ELSE Messages),
          dg \in Digests, s \in SigInputs :
          /\ IntOracle(m, dg)
          /\ message' = m
          /\ sha256' = Recorded(sha256, m, dg)
          /\ h_int' = dg
          /\ v_signature' = s
          /\ IF PyPowRaises(s, public_key[1], public_key[2])
             THEN /\ err' = "ValueError: pow()"
                  /\ UNCHANGED <<h_from_sig, ok>>
                  /\ pc' = "raised"
             ELSE /\ err' = err
                  /\ h_from_sig' = PyPowVal(s, public_key[1], public_key[2])
                  /\ ok' = VerifyResult(h_int', h_from_sig')
                  /\ pc' = IF pc = "signed" THEN "verified" ELSE "verify_ret"
    /\ UNCHANGED signature
    /\ UNCHANGED <<minerVars, primeVars, glpVars, keyVars>>

NextRsa ==
    \/ NextPrime
    \/ KeygenSampleP
    \/ KeygenSampleQ
    \/ KeygenCheck
    \/ RsaSign
    \/ RsaVerify

SpecRsa == (InitKeygen \/ InitKeys) /\ [][NextRsa]_vars

-----------------------------------------------------------------------------
(***************************************************************************)
(* Claims about the miner.                                                 *)
(***************************************************************************)
MinerReturned == pc \in {"pow_search_ret", "mine_ret"}

RetNonce == IF pc = "pow_search_ret" THEN powret[3] ELSE powret[1]
RetMsg == IF pc = "pow_search_ret" THEN powret[1] ELSE powret[2]
RetDigest == IF pc = "pow_search_ret" THEN powret[2] ELSE powret[3]

\* C2: when the miner returns, the returned nonce is the least n >= 0 whose
\* message nickname + decimal(n) has a digest starting with prefix: exactly the
\* messages of 0..n were hashed, none of the earlier ones matched, and the
\* returned message and digest are those of n.
C2_FirstMatchInOrder ==
    MinerReturned =>
        /\ RetNonce \in Nat
        /\ DOMAIN hexdigest = {Content(nickname, k) : k \in 0..RetNonce}
        /\ \A k \in 0..(RetNonce - 1) :
              ~StartsWith(hexdigest[Content(nickname, k)], prefix)
        /\ RetMsg = Content(nickname, RetNonce)
        /\ RetDigest = hexdigest[RetMsg]
        /\ StartsWith(RetDigest, prefix)

C2_Witness ==
    /\ MinerReturned
    /\ RetNonce >= 2
    /\ Len(prefix) >= 1

-----------------------------------------------------------------------------
(***************************************************************************)
(* Claims about is_prime and generate_large_prime.                         *)
(***************************************************************************)
\* x is a prime number, by trial division
IsTruePrime(x) == x >= 2 /\ \A f \in 2..(x - 1) : x % f # 0

IsPrimeReturned == pc \in {"is_prime_ret", "glp_test"}

\* C4: what generate_large_prime(bits) returns has bit length exactly bits, is
\* odd, and is the candidate that the call of is_prime just accepted.
C4_GeneratedPrimeShape ==
    pc = "glp_ret" =>
        /\ BitLength(glp_res) = bits
        /\ glp_res % 2 = 1
        /\ ip_n = glp_res
        /\ ip_res = TRUE

C4_Witness == pc = "glp_ret" /\ bits = MaxPrimeBits /\ glp_res >= 29

\* C5: is_prime never rejects a prime: whenever it returns on a prime n, for
\* whatever bases it drew, it returns True.
C5_PrimeNeverRejected ==
    (IsPrimeReturned /\ IsTruePrime(ip_n)) => ip_res = TRUE

C5_Witness ==
    /\ pc = "is_prime_ret"
    /\ ip_n = 127
    /\ ip_k = MaxRounds
    /\ ip_res = TRUE

\* C8: is_prime has no error path: no call of it raises (the draw of a base
\* is reached with a non-empty range only), and every call returns a boolean.
C8_IsPrimeTotal ==
    /\ [](err # "ValueError: empty range for randrange()")
    /\ [](pc = "is_prime" => <>(IsPrimeReturned /\ ip_res \in BOOLEAN))

C8_Witness ==
    /\ pc = "is_prime_round"
    /\ ip_n = 29
    /\ ip_k = MaxRounds
    /\ ip_i = ip_k

\* C9: in each round the base is drawn from exactly the closed interval
\* [2, n-2]: the values the draw can return are those of 2..n-2.
C9_BaseInterval ==
    (pc = "is_prime_round" /\ ip_i < ip_k) =>
        RandRange(2, ip_n - 2) = 2..(ip_n - 2)

-----------------------------------------------------------------------------
(***************************************************************************)
(* Claims about generate_rsa_keypair, rsa_sign and rsa_verify.             *)
(***************************************************************************)
\* the keys in use are those generate_rsa_keypair returned
KeyPairGenerated ==
    /\ n # 0
    /\ public_key = <<e, n>>
    /\ private_key = <<d, n>>

\* rsa_verify has returned, called on the message rsa_sign has signed
Verified == pc = "verified" /\ KeyPairGenerated

\* C1, as stated: for every message and every generated key pair, whatever
\* the requested bits, verifying the signature rsa_sign returned gives true.
C1_SignVerifyAlways ==
    (Verified /\ v_signature = signature) => ok = TRUE

\* C1, amended: for every message whose digest h is below the modulus n, and
\* every generated key pair whose p and q are prime, verifying the signature
\* rsa_sign returned gives true.
C1_SignVerifyBelowModulus ==
    (/\ Verified
     /\ v_signature = signature
     /\ h_int < n
     /\ IsTruePrime(p) /\ IsTruePrime(q)) => ok = TRUE

C1_Witness ==
    /\ Verified
    /\ v_signature = signature
    /\ h_int < n
    /\ h_int > 1
    /\ ok = TRUE

\* C3, the returned pair: e = 65537, both keys carry n = p*q with p # q,
\* gcd(e, (p-1)(q-1)) = 1 and e*d mod (p-1)(q-1) = 1.
C3_ReturnedPair ==
    pc = "keygen_ret" =>
        /\ public_key[1] = 65537
        /\ public_key[2] = p * q
        /\ private_key[2] = p * q
        /\ p # q
        /\ Gcd(65537, (p - 1) * (q - 1)) = 1
        /\ (65537 * private_key[1]) % ((p - 1) * (q - 1)) = 1

\* C3, the retry: an iteration with p = q or gcd(e, phi) # 1 goes back to
\* sampling and returns nothing.
C3_Retry ==
    (/\ pc = "keygen_q"
     /\ \/ p = glp_res
        \/ Gcd(65537, (p - 1) * (glp_res - 1)) # 1)
    => (pc' = "keygen_loop" /\ UNCHANGED <<public_key, private_key>>)

C6_TamperedAlwaysRejected ==
    (Verified /\ v_signature # signature) => ok = FALSE

\* C6, amended: for a generated key pair whose p and q are prime, every
\* integer that is not congruent modulo n to the signature rsa_sign returned
\* (so every other integer of [0, n)) is rejected by rsa_verify.
C6_IncongruentRejected ==
    (/\ Verified
     /\ IsTruePrime(p) /\ IsTruePrime(q)
     /\ v_signature % n # signature) => ok = FALSE

C6_Witness ==
    /\ Verified
    /\ h_int < n
    /\ v_signature \in 0..(n - 1)
    /\ v_signature # signature
    /\ ok = FALSE

\* C7: rsa_sign and rsa_verify return nothing when the modulus of the key is
\* <= 1: they raise.
C7_InvalidKeyRaises ==
    /\ pc \in {"signed", "verified"} => private_key[2] > 1
    /\ pc \in {"verified", "verify_ret"} => public_key[2] > 1

\* C10: for a generated key pair and a digest h >= n, rsa_sign returns
\* (h mod n)^d mod n, a value of [0, n), and rsa_verify returns false under
\* every signature; signing then verifying succeeds only when h < n.
C10_DigestAboveModulus ==
    /\ (pc \in {"signed", "verified"} /\ KeyPairGenerated /\ h_int >= n) =>
          /\ signature \in 0..(n - 1)
          /\ signature = PyPowVal(h_int % n, d, n)
    /\ (Verified /\ h_int >= n) => ok = FALSE
    /\ (Verified /\ v_signature = signature /\ ok = TRUE) => h_int < n

C10_Witness ==
    /\ Verified
    /\ h_int >= n
    /\ v_signature = signature
    /\ ok = FALSE

=============================================================================
